---- MODULE Spec2Model ----
(***************************************************************************)
(* Model of WeatherMonitor (src/weather_monitor.py): the run loop, the     *)
(* per-city alert counters and the daily aggregation.                      *)
(*                                                                         *)
(* Temperatures are fixed-point, in units of 1/500 degree, so that the     *)
(* 9/5 of a hundredth of a degree is a whole number and both conversions   *)
(* are exact on inputs given in hundredths.  Time is counted in ticks; a   *)
(* minute has TicksPerMinute ticks and a day MinutesPerDay minutes (a      *)
(* scaled-down day).  A calendar date is its day number.                   *)
(***************************************************************************)
EXTENDS Integers, Sequences, FiniteSets, TLC

\* ---------------------------------------------------------------- bounds
MaxN == 2               \* largest consecutive_alerts tried
MaxEvals == 4           \* direct calls of check_temperature_alert
MaxRows == 3            \* direct calls of store_weather_data
MaxFetched == 2         \* successful fetches in run
MaxInterval == 3        \* largest config.interval, in ticks
TicksPerMinute == 2     \* clock resolution
MinutesPerDay == 2      \* scaled-down day
MaxStartBefore == 1     \* run starts at most this many ticks before midnight
MaxFetchTicks == 1      \* longest time one fetch takes, in ticks
MaxSummaries == 2       \* summary rows made by direct calls of calculate_daily_summary
MaxConvSteps == 30      \* inputs of convert_temperature, in hundredths above 300 K
MaxOpen == 1            \* connections left open that are counted

\* ------------------------------------------------------- program constants
high_temp_threshold == 17500    \* 35.0 degrees
KelvinOffset == 136575          \* 273.15
FahrenheitOffset == 16000       \* 32
cities == <<"Delhi", "Mumbai">>

\* condition labels in ascending (string) order
ConditionOrder == <<"Clear", "Clouds">>
Conditions == {ConditionOrder[k] : k \in 1..Len(ConditionOrder)}
CitySet == {cities[k] : k \in 1..Len(cities)}

\* what the Reading Source reports, in kelvin: 307.15, 308.15, 309.15; 310.15
Kelvins == {153575, 154075, 154575}
FeelsKelvins == {155075}

\* what it reports to run: 35.0 (at the threshold) and 36.0 degrees, one label
LoopKelvins == {154075, 154575}
LoopConditions == {"Clear"}

None == [none |-> TRUE]
DayTicks == MinutesPerDay * TicksPerMinute

\* run starts late on day 0 and is followed to the end of minute 0 of day 1
StartTicks == (DayTicks - MaxStartBefore)..(DayTicks - 1)
MaxClock == DayTicks + TicksPerMinute

VARIABLES
    config,             \* WeatherConfig: consecutive_alerts, interval, email_config, temp_unit
    alert_counter,      \* self.alert_counter: key -> count
    weather_data,       \* table weather_data, in id order
    daily_summaries,    \* table daily_summaries, in id order
    alerts,             \* messages handed to trigger_alert, in order
    pc,                 \* position of run
    i,                  \* index of the city of the first for loop
    j,                  \* index of the city of the second for loop
    data,               \* local variable data of run
    yesterday,          \* local variable yesterday of run
    now,                \* wall clock, in ticks
    evals,              \* history: readings given to check_temperature_alert
    cyc,                \* history: fetch results of the current cycle, failed fetches
    summary_ret,        \* the last call of calculate_daily_summary and what it returned
    sent_log,           \* SMTP sessions opened by send_email_alert, in order
    conv,               \* the last call of convert_temperature and what it returned
    open_conns          \* sqlite3 connections opened and not closed

vars == <<config, alert_counter, weather_data, daily_summaries, alerts, pc, i, j,
          data, yesterday, now, evals, cyc, summary_ret, sent_log, conv, open_conns>>

loopVars == <<pc, i, j, data, yesterday, now, cyc>>

\* ------------------------------------------------------------ conversions
kelvin_to_celsius(kelvin) == kelvin - KelvinOffset

\* the conversion with the factor upside down
kelvin_to_fahrenheit_inverted(kelvin) ==
    (kelvin_to_celsius(kelvin) * 5) \div 9 + FahrenheitOffset

\* celsius * 9/5 + 32; the division is exact for inputs in whole hundredths
kelvin_to_fahrenheit(kelvin) ==
    (kelvin_to_celsius(kelvin) * 9) \div 5 + FahrenheitOffset

convert_temperature(kelvin) ==
    IF config.temp_unit = "celsius"
    THEN kelvin_to_celsius(kelvin)
    ELSE kelvin_to_fahrenheit(kelvin)

Reading(city, kelvin, feels, cond, ts) ==
    [city |-> city,
     temperature |-> convert_temperature(kelvin),
     feels_like |-> convert_temperature(feels),
     main_condition |-> cond,
     timestamp |-> ts]

\* ------------------------------------------------------------ alert engine
CityKeyShared(city) == <<"", "high_temp">>

CityKey(city) == <<city, "high_temp">>

Get(ac, key, default) == IF key \in DOMAIN ac THEN ac[key] ELSE default

Put(ac, key, v) == [k \in (DOMAIN ac) \cup {key} |-> IF k = key THEN v ELSE ac[k]]

BreachingOrEqual(temperature) == temperature >= high_temp_threshold

Breaching(temperature) == temperature > high_temp_threshold

ShouldFireStrict(count) == count > config.consecutive_alerts

ShouldFire(count) == count >= config.consecutive_alerts

\* line 182 left out
CounterAfterFireKept(ac, key) == ac

CounterAfterFire(ac, key) == Put(ac, key, 0)

\* send_email_alert: smtp is what the SMTP session does ("ok" or "failed");
\* the result is what leaves the function ("raise" would propagate)
send_email_alert_unguarded(smtp) == IF smtp = "failed" THEN "raise" ELSE "ok"

send_email_alert(smtp) == IF smtp = "failed" THEN "failed" ELSE "ok"

trigger_alert(smtp) ==
    IF config.email_config THEN send_email_alert(smtp) ELSE "disabled"

\* a send_email_alert that tries once more after a failure
smtp_sessions_retry(smtp) == IF smtp = "failed" THEN <<smtp, smtp>> ELSE <<smtp>>

\* the SMTP sessions of one send_email_alert call: one "with smtplib.SMTP"
smtp_sessions(smtp) == <<smtp>>

\* the sessions of one check_temperature_alert call
sink_calls(fired, smtp) ==
    IF fired /\ config.email_config THEN smtp_sessions(smtp) ELSE <<>>

\* check_temperature_alert as a function of the counters: the new counters,
\* whether trigger_alert was called, and how the sink call ended
check_temperature_alert(ac, d, smtp) ==
    LET key == CityKey(d.city) IN
    IF Breaching(d.temperature)
    THEN LET inc == Put(ac, key, Get(ac, key, 0) + 1) IN
         IF ShouldFire(inc[key])
         THEN LET sent == trigger_alert(smtp) IN
              IF sent = "raise"
              THEN [counter |-> inc, fired |-> TRUE, sent |-> sent]
              ELSE [counter |-> CounterAfterFire(inc, key), fired |-> TRUE, sent |-> sent]
         ELSE [counter |-> inc, fired |-> FALSE, sent |-> "none"]
    ELSE [counter |-> Put(ac, key, 0), fired |-> FALSE, sent |-> "none"]

\* the state change of one call, with its record in evals and alerts
CheckAlert(d, smtp) ==
    LET r == check_temperature_alert(alert_counter, d, smtp) IN
    /\ alert_counter' = r.counter
    /\ evals' = Append(evals, [data |-> d, fired |-> r.fired, sent |-> r.sent])
    /\ alerts' = IF r.fired
                 THEN Append(alerts, [city |-> d.city, temperature |-> d.temperature])
                 ELSE alerts
    /\ sent_log' = sent_log \o
                    [k \in 1..Len(sink_calls(r.fired, smtp)) |->
                        [city |-> d.city, temperature |-> d.temperature,
                         outcome |-> sink_calls(r.fired, smtp)[k]]]

SmtpOutcomes == {"ok", "failed"}

\* -------------------------------------------------------------- aggregator
start_timestamp(date) == date * DayTicks

\* the first tick of the next day instead of the last tick of the day
end_timestamp_next_day(date) == (date + 1) * DayTicks

end_timestamp(date) == date * DayTicks + (DayTicks - 1)

\* the query of calculate_daily_summary with the city condition dropped
SelectedRowsAnyCity(rows, city, date) ==
    LET InRange(r) == /\ r.timestamp >= start_timestamp(date)
                      /\ r.timestamp <= end_timestamp(date)
    IN SelectSeq(rows, InRange)

\* SELECT ... WHERE city = ? AND timestamp BETWEEN ? AND ?, in id order
SelectedRows(rows, city, date) ==
    LET InRange(r) == /\ r.city = city
                      /\ r.timestamp >= start_timestamp(date)
                      /\ r.timestamp <= end_timestamp(date)
    IN SelectSeq(rows, InRange)

RECURSIVE SumTemp(_)
SumTemp(df) == IF df = <<>> THEN 0 ELSE df[1].temperature + SumTemp(Tail(df))

\* the first value instead of the largest
MaxTempFirst(df) == df[1].temperature

MaxTemp(df) == CHOOSE t \in {df[k].temperature : k \in 1..Len(df)} :
                   \A k \in 1..Len(df) : df[k].temperature <= t

MinTemp(df) == CHOOSE t \in {df[k].temperature : k \in 1..Len(df)} :
                   \A k \in 1..Len(df) : df[k].temperature >= t

Occurrences(df, label) == Cardinality({k \in 1..Len(df) : df[k].main_condition = label})

\* the most frequent label that is met first in row order
ModeFirstSeen(df) ==
    LET IsModeLabel(l) == \A q \in 1..Len(ConditionOrder) :
                              Occurrences(df, ConditionOrder[q]) <= Occurrences(df, l)
        first == CHOOSE k \in 1..Len(df) :
                    /\ IsModeLabel(df[k].main_condition)
                    /\ \A m \in 1..(k - 1) : ~IsModeLabel(df[m].main_condition)
    IN df[first].main_condition

\* Series.mode()[0]: the modes come sorted, so the first one in label order
Mode(df) ==
    LET IsMode(r) == \A q \in 1..Len(ConditionOrder) :
                        Occurrences(df, ConditionOrder[q]) <= Occurrences(df, ConditionOrder[r])
        first == CHOOSE r \in 1..Len(ConditionOrder) :
                    IsMode(r) /\ \A q \in 1..(r - 1) : ~IsMode(q)
    IN ConditionOrder[first]

\* the mean is kept exact, as sum over count
Summary(city, date, df) ==
    [city |-> city,
     date |-> date,
     avg_temp |-> [sum |-> SumTemp(df), n |-> Len(df)],
     max_temp |-> MaxTemp(df),
     min_temp |-> MinTemp(df),
     dominant_condition |-> Mode(df),
     summary_data |-> [k \in 1..Len(df) |->
                          [temperature |-> df[k].temperature,
                           main_condition |-> df[k].main_condition]]]

\* an insert that replaces the row of the same city and date, if any
InsertSummaryReplace(tbl, row) ==
    LET Other(r) == ~(r.city = row.city /\ r.date = row.date)
    IN Append(SelectSeq(tbl, Other), row)

InsertSummary(tbl, row) == Append(tbl, row)

\* one non-raising call of calculate_daily_summary(city, date)
\* sqlite3.connect
connect(n) == n + 1

\* conn.close()
close(n) == n - 1

\* a connection that no statement closes: it stays open, or the interpreter
\* reclaims it when the local variable conn goes away
Unclosed(n) == {n} \cup {m \in {connect(n)} : m <= MaxOpen}

CalcSummary(city, date) ==
    LET df == SelectedRows(weather_data, city, date) IN
    IF df = <<>>
    THEN /\ daily_summaries' = daily_summaries
         /\ summary_ret' = [city |-> city, date |-> date, ret |-> None]
         /\ open_conns' \in Unclosed(open_conns)
    ELSE /\ daily_summaries' = InsertSummary(daily_summaries, Summary(city, date, df))
         /\ summary_ret' = [city |-> city, date |-> date, ret |-> Summary(city, date, df)]
         /\ open_conns' = close(connect(open_conns))

\* an insert that replaces the city's earlier rows
StoreDataReplace(d) ==
    LET Other(r) == r.city # d.city IN
    weather_data' = IF d = None THEN weather_data
                    ELSE Append(SelectSeq(weather_data, Other), d)

\* one non-raising call of store_weather_data(d)
StoreData(d) ==
    weather_data' = IF d = None THEN weather_data ELSE Append(weather_data, d)

\* -------------------------------------------------------------------- Init
Configs == [consecutive_alerts : 1..MaxN, interval : 1..MaxInterval,
            email_config : BOOLEAN, temp_unit : {"celsius"}]

Init ==
    /\ config \in Configs
    /\ alert_counter = <<>>
    /\ weather_data = <<>>
    /\ daily_summaries = <<>>
    /\ alerts = <<>>
    /\ pc = "fetch"
    /\ i = 1
    /\ j = 1
    /\ data = None
    /\ yesterday = None
    /\ now \in StartTicks
    /\ evals = <<>>
    /\ cyc = [fetched |-> <<>>, rows0 |-> 0, evals0 |-> 0, aggchecks |-> 0, calls |-> <<>>,
              failed |-> {}, after_fail |-> FALSE]
    /\ summary_ret = None
    /\ sent_log = <<>>
    /\ conv = None
    /\ open_conns = close(connect(0))      \* setup_database

\* ------------------------------------------- check_temperature_alert, direct
InitEngine ==
    /\ Init
    /\ config.interval = 1
    /\ now = DayTicks - 1

EngineCall ==
    /\ Len(evals) < MaxEvals
    /\ \E c \in CitySet, k \in Kelvins, smtp \in SmtpOutcomes :
          CheckAlert(Reading(c, k, 155075, "Clear", 0), smtp)
    /\ UNCHANGED <<config, open_conns, weather_data, daily_summaries, loopVars, summary_ret, conv>>

NextEngine == EngineCall

SpecEngine == InitEngine /\ [][NextEngine]_vars

\* ---------------------------------------------------------------------- run
Date(t) == t \div DayTicks

MinuteOfDay(t) == (t % DayTicks) \div TicksPerMinute

NewCycle == [fetched |-> <<>>, rows0 |-> Len(weather_data), evals0 |-> Len(evals),
             aggchecks |-> 0, calls |-> <<>>,
             failed |-> cyc.failed, after_fail |-> cyc.after_fail]

\* a check of the hour alone
IsMidnightHourOnly(t) == MinuteOfDay(t) <= 1

\* current_time.hour == 0 and current_time.minute == 0
IsMidnightMinute(t) == MinuteOfDay(t) = 0

\* the date of the day itself
YesterdaySameDay(t) == Date(t)

\* current_time.date() - timedelta(days=1)
Yesterday(t) == Date(t) - 1

\* the body of "if data:" with the two calls in the other order
AfterStepSwapped(p) ==
    CASE p = "fetch" -> "check" [] p = "check" -> "store" [] p = "store" -> "next"

\* the order of the steps for one city: fetch, store, check, next city
AfterStep(p) ==
    CASE p = "fetch" -> "store" [] p = "store" -> "check" [] p = "check" -> "next"

NextCity ==
    IF i < Len(cities)
    THEN pc' = "fetch" /\ i' = i + 1
    ELSE pc' = "agg_check" /\ i' = i

Goto(target) ==
    IF target = "next" THEN NextCity ELSE pc' = target /\ i' = i

FetchOk ==
    /\ pc = "fetch"
    /\ Len(weather_data) < MaxFetched
    /\ \E d \in 0..MaxFetchTicks, k \in LoopKelvins, f \in FeelsKelvins, c \in LoopConditions :
          /\ now + d <= MaxClock
          /\ now' = now + d
          /\ data' = Reading(cities[i], k, f, c, now + d)
          /\ cyc' = [cyc EXCEPT !.fetched = Append(@, data')]
    /\ Goto(AfterStep("fetch"))
    /\ UNCHANGED <<config, open_conns, alert_counter, weather_data, daily_summaries, alerts,
                   j, yesterday, evals, summary_ret, conv, sent_log>>

\* a fetch failure that is not caught in get_weather_data
FetchFailPropagates ==
    /\ pc = "fetch"
    /\ \E d \in 0..MaxFetchTicks : now + d <= MaxClock /\ now' = now + d
    /\ data' = None
    /\ cyc' = [cyc EXCEPT !.fetched = Append(@, None)]
    /\ pc' = "raised"
    /\ UNCHANGED <<config, open_conns, alert_counter, weather_data, daily_summaries, alerts,
                   i, j, yesterday, evals, summary_ret, conv, sent_log>>

\* a failed fetch that clears the city's counter
CounterAfterFailedFetchReset(ac, city) == Put(ac, CityKey(city), 0)

\* "if data:" is false: nothing touches self.alert_counter
CounterAfterFailedFetch(ac, city) == ac

\* get_weather_data returns None, "if data:" is false
FetchFail ==
    /\ pc = "fetch"
    /\ \E d \in 0..MaxFetchTicks : now + d <= MaxClock /\ now' = now + d
    /\ data' = None
    /\ cyc' = [cyc EXCEPT !.fetched = Append(@, None), !.failed = @ \cup {cities[i]}]
    /\ alert_counter' = CounterAfterFailedFetch(alert_counter, cities[i])
    /\ NextCity
    /\ UNCHANGED <<config, open_conns, weather_data, daily_summaries, alerts,
                   j, yesterday, evals, summary_ret, conv, sent_log>>

\* requests.get is called without a timeout: the call may never return
FetchHang ==
    /\ pc = "fetch"
    /\ pc' = "hung"
    /\ UNCHANGED <<config, open_conns, alert_counter, weather_data, daily_summaries, alerts,
                   i, j, data, yesterday, now, evals, cyc, summary_ret,
                   conv, sent_log>>

StoreOk ==
    /\ pc = "store"
    /\ StoreData(data)
    /\ Goto(AfterStep("store"))
    /\ open_conns' = close(connect(open_conns))
    /\ UNCHANGED <<config, alert_counter, daily_summaries, alerts, j, data,
                   yesterday, now, evals, cyc, summary_ret, conv, sent_log>>

\* sqlite3 raises in store_weather_data; nothing in run catches it
StoreRaise ==
    /\ pc = "store"
    /\ pc' = "raised"
    /\ open_conns' \in Unclosed(open_conns)
    /\ UNCHANGED <<config, alert_counter, weather_data, daily_summaries, alerts,
                   i, j, data, yesterday, now, evals, cyc, summary_ret,
                   conv, sent_log>>

Check ==
    /\ pc = "check"
    /\ \E smtp \in SmtpOutcomes :
          /\ CheckAlert(data, smtp)
          /\ IF check_temperature_alert(alert_counter, data, smtp).sent = "raise"
             THEN pc' = "raised" /\ i' = i
             ELSE Goto(AfterStep("check"))
    /\ cyc' = [cyc EXCEPT !.failed = @ \ {data.city},
                          !.after_fail = data.city \in cyc.failed]
    /\ UNCHANGED <<config, open_conns, weather_data, daily_summaries, j, data, yesterday, now,
                   summary_ret, conv>>

\* current_time = datetime.now(); hour == 0 and minute == 0
AggCheck ==
    /\ pc = "agg_check"
    /\ cyc' = [cyc EXCEPT !.aggchecks = @ + 1]
    /\ IF IsMidnightMinute(now)
       THEN /\ yesterday' = Yesterday(now)
            /\ j' = 1
            /\ pc' = "summary"
       ELSE /\ pc' = "sleep"
            /\ UNCHANGED <<yesterday, j>>
    /\ UNCHANGED <<config, open_conns, alert_counter, weather_data, daily_summaries, alerts,
                   i, data, now, evals, summary_ret, conv, sent_log>>

SummaryStep ==
    /\ pc = "summary"
    /\ CalcSummary(cities[j], yesterday)
    /\ cyc' = [cyc EXCEPT !.calls = Append(@, [city |-> cities[j], date |-> yesterday])]
    /\ IF j < Len(cities)
       THEN j' = j + 1 /\ pc' = pc
       ELSE j' = j /\ pc' = "sleep"
    /\ UNCHANGED <<config, alert_counter, weather_data, alerts, i, data, yesterday,
                   now, evals, conv, sent_log>>

\* sqlite3 or pandas raises in calculate_daily_summary
SummaryRaise ==
    /\ pc = "summary"
    /\ pc' = "raised"
    /\ open_conns' \in Unclosed(open_conns)
    /\ UNCHANGED <<config, alert_counter, weather_data, daily_summaries, alerts,
                   i, j, data, yesterday, now, evals, cyc, summary_ret,
                   conv, sent_log>>

\* time.sleep(self.config.interval), then the next pass of while True
Sleep ==
    /\ pc = "sleep"
    /\ now + config.interval <= MaxClock
    /\ now' = now + config.interval
    /\ pc' = "fetch"
    /\ i' = 1
    /\ cyc' = NewCycle
    /\ UNCHANGED <<config, open_conns, alert_counter, weather_data, daily_summaries, alerts,
                   j, data, yesterday, evals, summary_ret, conv, sent_log>>

\* the process is killed from outside: its memory is gone, the tables stay
Crash ==
    /\ pc \notin {"raised", "crashed", "hung"}
    /\ pc' = "crashed"
    /\ alert_counter' = <<>>
    /\ data' = None
    /\ i' = 1
    /\ j' = 1
    /\ yesterday' = None
    /\ open_conns' = 0
    /\ UNCHANGED <<config, weather_data, daily_summaries, alerts, now, evals, cyc,
                   summary_ret, conv, sent_log>>

Next ==
    \/ FetchOk
    \/ FetchFail
    \/ FetchHang
    \/ StoreOk
    \/ StoreRaise
    \/ Check
    \/ AggCheck
    \/ SummaryStep
    \/ SummaryRaise
    \/ Sleep
    \/ Crash

Spec == Init /\ [][Next]_vars

\* ------------------------- store_weather_data, calculate_daily_summary, direct
\* the last tick of day 0 and the first tick of day 1
AggTimestamps == {DayTicks - 1, DayTicks}

AggKelvins == {154075, 154575}

InitAgg ==
    /\ Init
    /\ config = [consecutive_alerts |-> 2, interval |-> 1, email_config |-> FALSE,
                 temp_unit |-> "celsius"]
    /\ now = DayTicks - 1

StoreCall ==
    /\ Len(weather_data) < MaxRows
    /\ \E c \in CitySet, k \in AggKelvins, f \in FeelsKelvins, l \in LoopConditions,
          ts \in AggTimestamps :
          StoreData(Reading(c, k, f, l, ts))
    /\ open_conns' = close(connect(open_conns))
    /\ UNCHANGED <<config, alert_counter, daily_summaries, alerts, loopVars, evals,
                   summary_ret, conv, sent_log>>

SummaryCall ==
    /\ Len(daily_summaries) < MaxSummaries
    /\ \E c \in CitySet, date \in 0..1 : CalcSummary(c, date)
    /\ UNCHANGED <<config, alert_counter, weather_data, alerts, loopVars, evals,
                   conv, sent_log>>

NextAgg == StoreCall \/ SummaryCall

SpecAgg == InitAgg /\ [][NextAgg]_vars

\* ------------------------------------ calculate_daily_summary, its statistics
\* 25.0, 28.0 and 30.0 degrees, as reported in kelvin
StatKelvins == {149075, 150575, 151575}

StatStore ==
    /\ Len(weather_data) < MaxRows
    /\ \E k \in StatKelvins, f \in FeelsKelvins, l \in Conditions :
          StoreData(Reading("Delhi", k, f, l, DayTicks))
    /\ open_conns' = close(connect(open_conns))
    /\ UNCHANGED <<config, alert_counter, daily_summaries, alerts, loopVars, evals,
                   summary_ret, conv, sent_log>>

StatSummary ==
    /\ Len(daily_summaries) < MaxSummaries
    /\ CalcSummary("Delhi", 1)
    /\ UNCHANGED <<config, alert_counter, weather_data, alerts, loopVars, evals,
                   conv, sent_log>>

NextStats == StatStore \/ StatSummary

SpecStats == InitAgg /\ [][NextStats]_vars

\* ------------------------------------------------ convert_temperature, direct
ReferenceKelvin == 150000       \* 300 K

TempUnits == {"celsius", "fahrenheit"}

\* 300.00 K upwards in steps of a hundredth
ConvKelvins == {ReferenceKelvin + 5 * h : h \in 0..MaxConvSteps}

InitConv ==
    /\ Init
    /\ config.consecutive_alerts = 2
    /\ config.interval = 1
    /\ ~config.email_config
    /\ now = DayTicks - 1

\* self.config.temp_unit = ...
SetUnit ==
    /\ \E u \in TempUnits : config' = [config EXCEPT !.temp_unit = u]
    /\ UNCHANGED <<open_conns, alert_counter, weather_data, daily_summaries, alerts, loopVars,
                   evals, summary_ret, sent_log, conv>>

ConvertCall ==
    /\ \E k \in ConvKelvins :
          conv' = [kelvin |-> k, unit |-> config.temp_unit,
                   value |-> convert_temperature(k)]
    /\ UNCHANGED <<config, open_conns, alert_counter, weather_data, daily_summaries, alerts,
                   loopVars, evals, summary_ret, sent_log>>

NextConv == SetUnit \/ ConvertCall

SpecConv == InitConv /\ [][NextConv]_vars

\* ------------------------------------------------- claims on the alert engine
Last(s) == s[Len(s)]

N == config.consecutive_alerts

Count(c) == Get(alert_counter, <<c, "high_temp">>, 0)

EvalsOf(c) == LET OfCity(e) == e.data.city = c IN SelectSeq(evals, OfCity)

Exceeds(e) == e.data.temperature > high_temp_threshold

\* breaching readings up to position k of s since the start, the last
\* non-breaching reading or the last fired alert
RECURSIVE RunLen(_, _)
RunLen(s, k) ==
    IF k = 0 THEN 0
    ELSE IF ~Exceeds(s[k]) THEN 0
    ELSE IF k > 1 /\ s[k - 1].fired THEN 1
    ELSE RunLen(s, k - 1) + 1

FiredEvals == LET Fired(e) == e.fired IN SelectSeq(evals, Fired)

\* C1: a reading fires an alert exactly when it is breaching and is the N-th
\* breaching reading of its city since construction, the last non-breaching
\* reading or the last alert of that city; each such reading fires exactly
\* one alert and no other reading fires any.
C1_AlertOnNthConsecutiveBreach ==
    /\ \A c \in CitySet :
          LET s == EvalsOf(c) IN
          \A k \in 1..Len(s) : s[k].fired <=> (Exceeds(s[k]) /\ RunLen(s, k) = N)
    /\ Len(alerts) = Len(FiredEvals)
    /\ \A k \in 1..Len(alerts) :
          alerts[k] = [city |-> FiredEvals[k].data.city,
                       temperature |-> FiredEvals[k].data.temperature]

C1_Witness ==
    /\ N = 2
    /\ \E c \in CitySet :
          LET s == EvalsOf(c) IN
          /\ Len(s) = 4
          /\ ~s[1].fired /\ s[2].fired /\ ~s[3].fired /\ s[4].fired
          /\ Exceeds(s[3])
    /\ Len(alerts) = 2

C5_Step ==
    evals' # evals =>
        LET e == Last(evals')
            key == <<e.data.city, "high_temp">> IN
        /\ key \in DOMAIN alert_counter'
        /\ e.data.temperature <= high_temp_threshold =>
              /\ alert_counter'[key] = 0
              /\ ~e.fired
              /\ alerts' = alerts
        /\ e.fired => alert_counter'[key] = 0

\* C5: the counter mapping is empty at construction; every count is a
\* non-negative integer; right after a non-breaching reading (temperature at
\* or below the threshold) the city's count is 0 and no alert was emitted;
\* right after an alert fires the city's count is 0.
C5_AlertStateInvariant ==
    /\ DOMAIN alert_counter = {}
    /\ [](\A key \in DOMAIN alert_counter : alert_counter[key] \in Nat)
    /\ [][C5_Step]_vars

C5_Witness ==
    /\ Len(evals) >= 2
    /\ Last(evals).data.temperature = high_temp_threshold
    /\ evals[Len(evals) - 1].data.city = Last(evals).data.city
    /\ Exceeds(evals[Len(evals) - 1])
    /\ ~evals[Len(evals) - 1].fired
    /\ Count(Last(evals).data.city) = 0
    /\ \E k \in 1..Len(evals) : evals[k].fired

C6_Frame ==
    evals' # evals =>
        \A c \in CitySet \ {Last(evals').data.city} :
            /\ Count(c)' = Count(c)
            /\ (<<c, "high_temp">> \in DOMAIN alert_counter')
                   <=> (<<c, "high_temp">> \in DOMAIN alert_counter)

SameTemperatures(s, t, k) ==
    \A m \in 1..k : s[m].data.temperature = t[m].data.temperature

\* C6: a call for city A changes only A's counter, and whether a reading of
\* a city fires depends only on the readings evaluated for that city: two
\* cities given the same temperatures fire at the same positions, however
\* their readings are interleaved.
C6_PerLocationIsolation ==
    /\ [][C6_Frame]_vars
    /\ [](\A a \in CitySet, b \in CitySet :
             LET s == EvalsOf(a)
                 t == EvalsOf(b) IN
             \A k \in 1..Len(s) :
                 (k <= Len(t) /\ SameTemperatures(s, t, k)) => s[k].fired = t[k].fired)

C6_Witness ==
    /\ N = 2
    /\ Len(evals) = 3
    /\ evals[1].data.city = "Delhi" /\ Exceeds(evals[1])
    /\ evals[2].data.city = "Mumbai" /\ Exceeds(evals[2]) /\ ~evals[2].fired
    /\ evals[3].data.city = "Delhi" /\ evals[3].fired
    /\ Count("Mumbai") = 1
    /\ Count("Delhi") = 0

C7_Step ==
    (evals' # evals /\ Last(evals').fired) =>
        Get(alert_counter', <<Last(evals').data.city, "high_temp">>, 0) = 0

\* C7: a failing sink call does not leave check_temperature_alert as an
\* exception and the counter is still reset: after an alert whose delivery
\* failed the next N - 1 readings of the city fire nothing, and N breaching
\* readings in a row fire on the N-th.
C7_SinkFailureKeepsReset ==
    /\ [](\A k \in 1..Len(evals) : evals[k].sent # "raise")
    /\ [][C7_Step]_vars
    /\ [](\A c \in CitySet :
             LET s == EvalsOf(c) IN
             \A k \in 1..Len(s) :
                 s[k].sent = "failed" =>
                    /\ \A m \in (k + 1)..(k + N - 1) : m <= Len(s) => ~s[m].fired
                    /\ (k + N <= Len(s) /\ \A m \in (k + 1)..(k + N) : Exceeds(s[m]))
                           => s[k + N].fired)

C7_Witness ==
    /\ N = 2
    /\ \E c \in CitySet :
          LET s == EvalsOf(c) IN
          /\ Len(s) = 4
          /\ s[2].fired /\ s[2].sent = "failed"
          /\ ~s[3].fired /\ Exceeds(s[3])
          /\ s[4].fired
          /\ Count(c) = 0

\* ---------------------------------------------------------- claims on run
\* C2: store before check: in every state, a crash included, the readings
\* that were alert-evaluated are rows of weather_data (the k-th evaluated
\* reading is the k-th row) and every fired alert has a row with its city
\* and temperature.
C2_StoredBeforeEvaluated ==
    /\ Len(evals) <= Len(weather_data)
    /\ \A k \in 1..Len(evals) : evals[k].data = weather_data[k]
    /\ \A k \in 1..Len(alerts) :
          \E r \in 1..Len(weather_data) :
              /\ weather_data[r].city = alerts[k].city
              /\ weather_data[r].temperature = alerts[k].temperature

C2_Witness ==
    /\ pc = "crashed"
    /\ Len(alerts) >= 1
    /\ Len(weather_data) = Len(evals) + 1
    /\ Last(weather_data).temperature > high_temp_threshold

Successes(fetched) == LET Ok(d) == d # None IN SelectSeq(fetched, Ok)

C3_CycleState ==
    pc \in {"fetch", "agg_check", "summary", "sleep"} =>
        LET ok == Successes(cyc.fetched) IN
        /\ Len(cyc.fetched) = IF pc = "fetch" THEN i - 1 ELSE Len(cities)
        /\ \A k \in 1..Len(cyc.fetched) :
              cyc.fetched[k] # None => cyc.fetched[k].city = cities[k]
        /\ Len(weather_data) = cyc.rows0 + Len(ok)
        /\ Len(evals) = cyc.evals0 + Len(ok)
        /\ \A k \in 1..Len(ok) :
              /\ weather_data[cyc.rows0 + k] = ok[k]
              /\ evals[cyc.evals0 + k].data = ok[k]

C3_FailStep ==
    (Len(cyc'.fetched) = Len(cyc.fetched) + 1 /\ Last(cyc'.fetched) = None) =>
        /\ weather_data' = weather_data
        /\ evals' = evals
        /\ alert_counter' = alert_counter
        /\ alerts' = alerts
        /\ pc' = IF i < Len(cities) THEN "fetch" ELSE "agg_check"
        /\ i' = IF i < Len(cities) THEN i + 1 ELSE i

\* C3: a failed fetch stores nothing, evaluates nothing and moves on to the
\* next city (after the last city, to the daily-aggregation check); the rows
\* stored and the readings evaluated in a cycle are exactly the successful
\* fetches of that cycle, in configuration order.
C3_FetchIsolation == [][C3_FailStep]_vars /\ []C3_CycleState

C3_Witness ==
    /\ pc = "sleep"
    /\ cyc.fetched[1] = None
    /\ cyc.fetched[2] # None
    /\ Last(weather_data) = cyc.fetched[2]
    /\ Last(evals).data = cyc.fetched[2]
    /\ Len(weather_data) = cyc.rows0 + 1

\* C4: no failure of a fetch, of the store or of the sink ends the loop: run
\* is never left by an exception.
C4_LoopSurvivesFailures == pc # "raised"

\* C8: at most one daily_summaries row per (city, date).
C8_OneSummaryPerCityAndDate ==
    \A a \in 1..Len(daily_summaries), b \in 1..Len(daily_summaries) :
        (/\ daily_summaries[a].city = daily_summaries[b].city
         /\ daily_summaries[a].date = daily_summaries[b].date) => a = b

\* ------------------------------------------------- claims on the aggregator
SummaryCalled == summary_ret' # summary_ret \/ daily_summaries' # daily_summaries

InWindow(r, city, date) ==
    /\ r.city = city
    /\ r.timestamp >= date * DayTicks
    /\ r.timestamp <= date * DayTicks + DayTicks - 1

HasReadings(city, date) ==
    \E r \in 1..Len(weather_data) : InWindow(weather_data[r], city, date)

C9_Step ==
    (SummaryCalled /\ HasReadings(summary_ret'.city, summary_ret'.date)) =>
        /\ Len(daily_summaries') = Len(daily_summaries) + 1
        /\ SubSeq(daily_summaries', 1, Len(daily_summaries)) = daily_summaries
        /\ Last(daily_summaries').city = summary_ret'.city
        /\ Last(daily_summaries').date = summary_ret'.date
        /\ Last(daily_summaries') = summary_ret'.ret
        /\ weather_data' = weather_data

\* C9: a call of calculate_daily_summary that finds readings appends exactly
\* one row and leaves the rows already there alone, so repeated calls for
\* one (city, date) pile up rows; rows of one (city, date) made from the same
\* readings carry the same statistics.
C9_SummaryAlwaysInserted ==
    /\ [][C9_Step]_vars
    /\ [](\A a \in 1..Len(daily_summaries), b \in 1..Len(daily_summaries) :
             (/\ daily_summaries[a].city = daily_summaries[b].city
              /\ daily_summaries[a].date = daily_summaries[b].date
              /\ daily_summaries[a].summary_data = daily_summaries[b].summary_data)
                 => daily_summaries[a] = daily_summaries[b])

C9_Witness ==
    /\ Len(daily_summaries) = 2
    /\ daily_summaries[1] = daily_summaries[2]
    /\ Len(daily_summaries[1].summary_data) = 2

C10_Step ==
    (SummaryCalled /\ ~HasReadings(summary_ret'.city, summary_ret'.date)) =>
        /\ summary_ret'.ret = None
        /\ daily_summaries' = daily_summaries
        /\ weather_data' = weather_data
        /\ alert_counter' = alert_counter

\* C10: a call of calculate_daily_summary for a city with no reading inside
\* the date's window returns None, inserts no row and leaves weather_data,
\* daily_summaries and alert_counter as they were.
C10_EmptyRangeNoSummary == [][C10_Step]_vars

C10_Witness ==
    /\ summary_ret # None
    /\ summary_ret.ret = None
    /\ daily_summaries = <<>>
    /\ \E r \in 1..Len(weather_data) :
          /\ weather_data[r].city # summary_ret.city
          /\ InWindow(weather_data[r], weather_data[r].city, summary_ret.date)
    /\ \E r \in 1..Len(weather_data) :
          /\ weather_data[r].city = summary_ret.city
          /\ ~InWindow(weather_data[r], summary_ret.city, summary_ret.date)

\* -------------------------------------------------- claims on the statistics
RECURSIVE Total(_, _)
Total(S, k) == IF k = 0 THEN 0 ELSE Total(S, k - 1) + S[k].temperature

Times(S, label) == Cardinality({k \in 1..Len(S) : S[k].main_condition = label})

Temps(S) == [k \in 1..Len(S) |-> S[k].temperature]

Labels(S) == [k \in 1..Len(S) |-> S[k].main_condition]

\* C11: for the readings S of a summary, max_temp is the largest and min_temp
\* the smallest temperature of S, avg_temp is the sum over the count (so it
\* lies between them) and dominant_condition occurs at least as often as any
\* label; 25.0, 30.0, 28.0 with Clear, Clear, Clouds give 27.67 (within 0.01),
\* 30.0, 25.0 and Clear.
C11_SummaryStatistics ==
    \A r \in 1..Len(daily_summaries) :
        LET row == daily_summaries[r]
            S == row.summary_data IN
        /\ Len(S) >= 1
        /\ \E k \in 1..Len(S) : S[k].temperature = row.max_temp
        /\ \A k \in 1..Len(S) : S[k].temperature <= row.max_temp
        /\ \E k \in 1..Len(S) : S[k].temperature = row.min_temp
        /\ \A k \in 1..Len(S) : S[k].temperature >= row.min_temp
        /\ row.avg_temp.n = Len(S)
        /\ row.avg_temp.sum = Total(S, Len(S))
        /\ row.min_temp * row.avg_temp.n <= row.avg_temp.sum
        /\ row.avg_temp.sum <= row.max_temp * row.avg_temp.n
        /\ Times(S, row.dominant_condition) >= 1
        /\ \A l \in Conditions : Times(S, l) <= Times(S, row.dominant_condition)
        /\ (Temps(S) = <<12500, 15000, 14000>> /\ Labels(S) = <<"Clear", "Clear", "Clouds">>)
              => /\ row.max_temp = 15000
                 /\ row.min_temp = 12500
                 /\ row.dominant_condition = "Clear"
                 /\ 13830 * row.avg_temp.n <= row.avg_temp.sum
                 /\ row.avg_temp.sum <= 13840 * row.avg_temp.n

C11_Witness ==
    \E r \in 1..Len(daily_summaries) :
        /\ Temps(daily_summaries[r].summary_data) = <<12500, 15000, 14000>>
        /\ Labels(daily_summaries[r].summary_data) = <<"Clear", "Clear", "Clouds">>
        /\ daily_summaries[r].avg_temp = [sum |-> 41500, n |-> 3]

Permuted(S, p) == [k \in 1..Len(S) |-> S[p[k]]]

LabelRank(l) == CHOOSE q \in 1..Len(ConditionOrder) : ConditionOrder[q] = l

\* C19: among the labels that occur most often in the readings of a summary
\* the dominant condition is the first in ascending label order, and it is
\* the same for every order in which those readings could have been stored.
C19_DominantConditionTies ==
    \A r \in 1..Len(daily_summaries) :
        LET row == daily_summaries[r]
            S == row.summary_data IN
        /\ \A l \in Conditions :
              Times(S, l) = Times(S, row.dominant_condition)
                  => LabelRank(row.dominant_condition) <= LabelRank(l)
        /\ \A p \in Permutations(1..Len(S)) :
              Mode(Permuted(S, p)) = row.dominant_condition

C19_Witness ==
    \E r \in 1..Len(daily_summaries) :
        /\ Labels(daily_summaries[r].summary_data) = <<"Clouds", "Clear">>
        /\ daily_summaries[r].dominant_condition = "Clear"

\* ------------------------------------------------------ more claims on run
C12_State ==
    /\ cyc.aggchecks <= 1
    /\ pc \in {"fetch", "store", "check", "agg_check", "hung"} =>
          cyc.aggchecks = 0 /\ cyc.calls = <<>>
    /\ pc \in {"summary", "sleep"} => cyc.aggchecks = 1
    /\ cyc.aggchecks = 1 =>
          /\ Len(cyc.fetched) = Len(cities)
          /\ Len(weather_data) = cyc.rows0 + Len(Successes(cyc.fetched))
          /\ Len(evals) = cyc.evals0 + Len(Successes(cyc.fetched))
    /\ Len(cyc.calls) <= Len(cities)
    /\ \A k \in 1..Len(cyc.calls) :
          cyc.calls[k] = [city |-> cities[k], date |-> (now \div DayTicks) - 1]
    /\ cyc.calls # <<>> =>
          /\ (now % DayTicks) \div TicksPerMinute = 0
          /\ summary_ret.city = Last(cyc.calls).city
          /\ summary_ret.date = Last(cyc.calls).date
    /\ pc = "sleep" =>
          Len(cyc.calls) = IF (now % DayTicks) \div TicksPerMinute = 0
                           THEN Len(cities) ELSE 0

\* C12: the midnight check of a cycle is evaluated once, after every city
\* was fetched and stored-and-checked or skipped; when it triggers, the calls
\* of calculate_daily_summary before the sleep are one per configured city,
\* in configuration order, for the day before the current date.
C12_AggregationAfterAllCities == C12_State

C12_Witness ==
    /\ pc = "sleep"
    /\ Len(cyc.calls) = Len(cities)
    /\ cyc.fetched[1] = None
    /\ cyc.fetched[2] # None
    /\ Len(daily_summaries) >= 1

C13_Step ==
    /\ Len(weather_data') >= Len(weather_data)
    /\ SubSeq(weather_data', 1, Len(weather_data)) = weather_data
    /\ weather_data' # weather_data =>
          /\ pc = "store"
          /\ Len(weather_data') = Len(weather_data) + 1
          /\ Last(weather_data') = Last(cyc.fetched)
          /\ Last(weather_data').city = data.city
          /\ Last(weather_data').temperature = data.temperature
          /\ Last(weather_data').feels_like = data.feels_like
          /\ Last(weather_data').main_condition = data.main_condition
          /\ Last(weather_data').timestamp = data.timestamp

\* C13: weather_data only grows: a step of run either leaves it alone or
\* appends one row that equals the reading just fetched, field by field;
\* the rows already there are never changed or removed.
C13_ReadingsAppendOnly == [][C13_Step]_vars

C13_Witness ==
    /\ Len(weather_data) = 2
    /\ weather_data[1].city = weather_data[2].city
    /\ weather_data[1] # weather_data[2]
    /\ Len(daily_summaries) >= 1

\* C14: without email_config no SMTP session is ever opened; with it, every
\* trigger_alert call opens exactly one, for that alert, and a failed one is
\* not tried again, in that cycle or a later one.
C14_OneSendPerAlert ==
    /\ ~config.email_config => sent_log = <<>>
    /\ config.email_config =>
          /\ Len(sent_log) = Len(alerts)
          /\ \A k \in 1..Len(sent_log) :
                /\ sent_log[k].city = alerts[k].city
                /\ sent_log[k].temperature = alerts[k].temperature

C14_Witness ==
    /\ config.email_config
    /\ Len(alerts) = 2
    /\ Len(sent_log) = 2
    /\ sent_log[1].outcome = "failed"
    /\ pc = "sleep"

\* C15: no fetch blocks for good: a cycle is never stuck in get_weather_data.
C15_FetchIsBounded == pc # "hung"

RowsOfDate(tbl, d) == LET OfDate(r) == r.date = d IN SelectSeq(tbl, OfDate)

C18_Step ==
    /\ daily_summaries' # daily_summaries =>
          /\ (now % DayTicks) \div TicksPerMinute = 0
          /\ Len(daily_summaries') = Len(daily_summaries) + 1
          /\ Last(daily_summaries').date = (now \div DayTicks) - 1
    /\ \A d \in -1..(now \div DayTicks) :
          now >= (d + 1) * DayTicks + TicksPerMinute =>
              RowsOfDate(daily_summaries', d) = RowsOfDate(daily_summaries, d)

\* C18: a summary for a date is only ever made by a check that falls in
\* minute 0 of the next day; once that minute has passed no later cycle makes
\* one, and with an interval longer than a minute the minute can be missed.
C18_NoCatchUp == [][C18_Step]_vars

C18_Witness ==
    /\ config.interval > TicksPerMinute
    /\ pc = "sleep"
    /\ cyc.aggchecks = 1
    /\ now >= DayTicks + TicksPerMinute
    /\ \E r \in 1..Len(weather_data) : weather_data[r].timestamp \div DayTicks = 0
    /\ daily_summaries = <<>>

\* ------------------------------------------- more claims on the alert engine
C20_Step ==
    evals' # evals =>
        LET e == Last(evals')
            before == Count(e.data.city) IN
        Exceeds(e) => ((before + 1 >= N) <=> (before + 1 = N))

\* C20: between calls every counter lies in 0 .. consecutive_alerts - 1, so
\* the test "counter >= consecutive_alerts" holds exactly when the counter
\* equals consecutive_alerts.
C20_CounterBelowN ==
    /\ [](\A key \in DOMAIN alert_counter :
             alert_counter[key] >= 0 /\ alert_counter[key] <= N - 1)
    /\ [][C20_Step]_vars

C20_Witness ==
    /\ N = 2
    /\ Count("Delhi") = 1
    /\ \E k \in 1..Len(evals) : evals[k].fired /\ evals[k].data.city = "Delhi"

\* ------------------------------------------------- claims on the conversion
\* C16: convert_temperature(k) is k - 273.15 for celsius and
\* (k - 273.15) * 9/5 + 32 for fahrenheit, exactly; 300 K gives 26.85 and
\* 80.33.
C16_ConversionExact ==
    conv # None =>
        /\ conv.unit = "celsius" => conv.value = conv.kelvin - 136575
        /\ conv.unit = "fahrenheit" =>
              5 * (conv.value - 16000) = 9 * (conv.kelvin - 136575)
        /\ conv.kelvin = 150000 =>
              conv.value = IF conv.unit = "celsius" THEN 13425 ELSE 40165

C16_Witness ==
    /\ conv # None
    /\ conv.kelvin = 150000
    /\ conv.unit = "fahrenheit"
    /\ conv.value = 40165

\* -------------------------------------------- more claims on the aggregator
Snapshot(rows) == [k \in 1..Len(rows) |->
                      [temperature |-> rows[k].temperature,
                       main_condition |-> rows[k].main_condition]]

C17_Step ==
    SummaryCalled =>
        LET c == summary_ret'.city
            d == summary_ret'.date
            Chosen(r) == InWindow(r, c, d)
            sel == SelectSeq(weather_data, Chosen) IN
        IF sel = <<>>
        THEN summary_ret'.ret = None
        ELSE /\ summary_ret'.ret # None
             /\ summary_ret'.ret.summary_data = Snapshot(sel)

\* C17: calculate_daily_summary(city, date) aggregates exactly the rows of
\* that city stamped from the first to the last tick of the date, both
\* included; a row one tick before or after, or of another city, is left out.
C17_WindowInclusive == [][C17_Step]_vars

C17_Witness ==
    /\ summary_ret # None
    /\ summary_ret.date = 1
    /\ summary_ret.ret # None
    /\ Len(summary_ret.ret.summary_data) = 1
    /\ \E r \in 1..Len(weather_data) :
          /\ weather_data[r].city = summary_ret.city
          /\ weather_data[r].timestamp = DayTicks
    /\ \E r \in 1..Len(weather_data) :
          /\ weather_data[r].city = summary_ret.city
          /\ weather_data[r].timestamp = DayTicks - 1
    /\ \E r \in 1..Len(weather_data) :
          /\ weather_data[r].city # summary_ret.city
          /\ weather_data[r].timestamp = DayTicks

\* ------------------------------------------------- claims on failed fetches
C21_FailStep ==
    (Len(cyc'.fetched) = Len(cyc.fetched) + 1 /\ Last(cyc'.fetched) = None) =>
        \A c \in CitySet :
            Get(alert_counter', <<c, "high_temp">>, 0) = Count(c)

C21_EvalStep ==
    (Len(evals') = Len(evals) + 1 /\ Last(evals').data.city \in cyc.failed) =>
        LET e == Last(evals')
            s == EvalsOf(e.data.city) IN
        /\ e.fired <=> (Exceeds(e) /\ RunLen(Append(s, e), Len(s) + 1) = N)
        /\ (N = 2 /\ s # <<>> /\ Exceeds(Last(s)) /\ ~Last(s).fired /\ Exceeds(e))
              => e.fired

\* C21: a failed fetch leaves every counter as it was, so breaching readings
\* of a city separated only by failed fetches of that city count as
\* consecutive: with consecutive_alerts = 2 the second one fires.
C21_FailedFetchKeepsCounter == [][C21_FailStep /\ C21_EvalStep]_vars

C21_Witness ==
    /\ N = 2
    /\ cyc.after_fail
    /\ LET s == EvalsOf(Last(evals).data.city) IN
       /\ Len(s) = 2
       /\ Exceeds(s[1]) /\ ~s[1].fired
       /\ Exceeds(s[2]) /\ s[2].fired
    /\ Len(alerts) = 1

\* ---------------------------------------------- claims on store connections
\* C22: between operations no connection is open: setup_database,
\* store_weather_data and calculate_daily_summary close the connection they
\* open on every path that does not raise.
C22_NoOpenConnection == pc # "raised" => open_conns = 0

====
